---- MODULE Spec2Model ----
(***************************************************************************)
(* State-machine model of BERT4rec-MAML's pretraining orchestrator         *)
(* (src/pretrain.py: Pretrain, main) and of its meta-loss networks         *)
(* (src/models/meta_loss_model.py: MetaLossNetwork, MetaTaskLstmNetwork,   *)
(* MetaTaskMLPNetwork).                                                    *)
(*                                                                         *)
(* Three specifications share the variables:                               *)
(*   Spec        main(): construct, optional load, train loop, checkpoints *)
(*   SpecLoss    MetaLossNetwork construction and forward dispatch         *)
(*   SpecWeight  the two weighting networks' forward passes                *)
(*                                                                         *)
(* Losses are real numbers in the code.  Here they live on an integer grid *)
(* with exact rational means: a grid value g stands for g * LossUnit       *)
(* rating units (RMSE, MAE) or g * LossUnit^2 (MSE).  Every operation the  *)
(* orchestrator applies to losses (mean, square root, comparison) is       *)
(* homogeneous in that unit, and the unit is chosen so that the initial    *)
(* best_valid_rmse_loss, 987654321, is a whole number of grid steps.       *)
(***************************************************************************)
EXTENDS Integers, Sequences, FiniteSets, TLC

VARIABLES
    \* ---- src/pretrain.py ----
    pc,               \* position of the process inside main()/train()
    runs,             \* number of processes started so far on this log_dir
    checkpoint_step,  \* args.checkpoint_step of the running process
    epochs,           \* args.pretrain_epochs of the running process
    bert,             \* self.model.bert parameters
    grad,             \* state of the .grad buffers of the parameters
    step_grad,        \* the grad state the last optimizer.step() consumed
    opt_steps,        \* optimizer.step() calls of this process
    zero_grads,       \* optimizer.zero_grad() calls of this process
    last_epoch,       \* self.lr_scheduler.last_epoch
    train_step,       \* self._train_step
    best_valid_rmse_loss,
    best_step,
    epoch,            \* loop variable of train()
    batch_i,          \* batches consumed of the loader being iterated
    mse_losses, mae_losses, rmse_losses,   \* locals of epoch_step
    mse_loss, mae_loss, rmse_loss,         \* locals of train()
    valid_result,     \* value of the call on line 133 of train()
    store,            \* the files of self._save_dir: key -> blob
    writes,           \* keys passed to torch.save, in order, all processes
    \* ---- src/models/meta_loss_model.py : MetaLossNetwork ----
    lpc, num_inner_steps, use_step_loss, loss_layers, call_x, call_step,
    evaluated, result,
    \* ---- src/models/meta_loss_model.py : weighting networks ----
    wpc, net, use_softmax, x_in, scores, w_out

pvars == <<pc, runs, checkpoint_step, epochs, bert, grad, step_grad, opt_steps,
           zero_grads, last_epoch, train_step, best_valid_rmse_loss, best_step,
           epoch, batch_i, mse_losses, mae_losses, rmse_losses, mse_loss,
           mae_loss, rmse_loss, valid_result, store, writes>>
lvars == <<lpc, num_inner_steps, use_step_loss, loss_layers, call_x, call_step,
           evaluated, result>>
wvars == <<wpc, net, use_softmax, x_in, scores, w_out>>
vars == <<pvars, lvars, wvars>>

----------------------------------------------------------------------------
(* Bounds of the model *)
MaxRuns == 2
MaxEpochs == 11
NumTrainBatches == 1
NumValidBatches == 2
LossUnit == 109739369

MaxInnerSteps == 3
MaxLossLayers == 2
MaxBatch == 2
MaxLen == 2

(* Program constants *)
MASK_FILL == -98765
VAL_INTERVAL == 10
BEST_VALID_INIT == 987654321
BEST_STEP_INIT == 0
TRAIN_STEP_INIT == 0

----------------------------------------------------------------------------
(* Exact arithmetic on the loss grid: a rational is <<numerator, denominator>> *)
(* in lowest terms with a positive denominator.                               *)
RECURSIVE GCD(_, _)
GCD(a, b) == IF b = 0 THEN a ELSE GCD(b, a % b)

Rat(n, d) == LET g == GCD(n, d) IN IF g = 0 THEN <<0, 1>> ELSE <<n \div g, d \div g>>
RatInt(n) == <<n, 1>>
RatLess(a, b) == a[1] * b[2] < b[1] * a[2]
RatGreater(a, b) == RatLess(b, a)
RatLeq(a, b) == ~RatLess(b, a)
RatMul(a, b) == Rat(a[1] * b[1], a[2] * b[2])

RECURSIVE SumSeq(_)
SumSeq(s) == IF s = <<>> THEN 0 ELSE Head(s) + SumSeq(Tail(s))

\* np.mean of a non-empty list
NpMean(s) == Rat(SumSeq(s), Len(s))

\* torch.sqrt on the grid (the per-batch MSE values drawn are perfect squares)
TorchSqrt(m) == CHOOSE r \in 0..m : r * r <= m /\ (r + 1) * (r + 1) > m

\* What one batch of a loader yields after the forward pass: the monitoring
\* MSE and MAE of the (detached) outputs against the targets.
BatchLosses == { [mse |-> 1, mae |-> 1], [mse |-> 4, mae |-> 1],
                 [mse |-> 81, mae |-> 9] }

EpochChoices == {0, 1, MaxEpochs}
ResumeSteps == {-1, 0, 3}

NoTriple == [mse |-> <<0, 1>>, mae |-> <<0, 1>>, rmse |-> <<0, 1>>]
NoParams == [init |-> 0, updates |-> 0]
NoTensor == [shape |-> <<0>>, data |-> <<>>]

----------------------------------------------------------------------------
(* src/pretrain.py *)

\* (mutant of ZeroGrad) the gradients of the previous batch are kept
ZeroGrad_Kept(g) == g

\* optimizer.zero_grad(): the gradient buffers are cleared
ZeroGrad(g) == "zero"

\* loss.backward(): gradients are accumulated into the buffers
Backward(g) == IF g \in {"none", "zero"} THEN "fresh" ELSE "accumulated"

\* optimizer.step(): one more update applied to the parameters
OptimizerStep(p) == [p EXCEPT !.updates = @ + 1]

\* the `if train:` of epoch_step
TakesOptimizerStep(train) == train

\* One iteration of the batch loop of epoch_step(data_loader, train) on a
\* batch whose monitoring losses are b.
EpochStepBatch(train, b) ==
    LET g0 == ZeroGrad(grad)
        g1 == IF TakesOptimizerStep(train) THEN Backward(g0) ELSE g0
    IN  /\ zero_grads' = zero_grads + 1
        /\ grad' = g1
        /\ IF TakesOptimizerStep(train)
             THEN /\ bert' = OptimizerStep(bert)
                  /\ opt_steps' = opt_steps + 1
                  /\ step_grad' = g1
             ELSE UNCHANGED <<bert, opt_steps, step_grad>>
        /\ mse_losses' = Append(mse_losses, b.mse)
        /\ mae_losses' = Append(mae_losses, b.mae)
        /\ rmse_losses' = Append(rmse_losses, TorchSqrt(b.mse))
        /\ batch_i' = batch_i + 1

\* (mutant of EpochRMSE) the per-batch RMSEs are summed, not averaged
EpochRMSE_Sum(rmses, mses) == Rat(SumSeq(rmses), 1)

\* The epoch-level RMSE epoch_step returns
EpochRMSE(rmses, mses) == NpMean(rmses)

\* The triple epoch_step returns once the loader is exhausted
EpochStepReturn ==
    [mse |-> NpMean(mse_losses), mae |-> NpMean(mae_losses),
     rmse |-> EpochRMSE(rmse_losses, mse_losses)]

\* `for epoch in range(epochs)`: the next position of train()
LoopHead(e, n) == IF e < n THEN "train_pass" ELSE "done"

\* `if epoch % VAL_INTERVAL == 0`
ValidatesAt(e) == e % VAL_INTERVAL = 0

\* The value train() compares with best_valid_rmse_loss: the local rmse_loss,
\* which line 117 bound to the training pass's RMSE; the validation pass's
\* return value (line 133) is not assigned to anything.
ComparedRMSE(train_rmse, valid_rmse) == train_rmse

\* `if self.best_valid_rmse_loss > rmse_loss`
IsImprovement(best, r) == RatGreater(best, r)

\* The file name _save_model writes: f"{self._train_step}"
SaveKey(ts, e) == ts

\* torch.save(self.model.bert.state_dict(), path): writing a path replaces it
SaveModel(st, key, blob) ==
    [k \in DOMAIN st \cup {key} |-> IF k = key THEN blob ELSE st[k]]

\* main(): Pretrain(args), then the `if args.checkpoint_step > -1` branch
Main(cs, ep) ==
    /\ pc = "idle"
    /\ runs < MaxRuns
    /\ runs' = runs + 1
    /\ checkpoint_step' = cs
    /\ epochs' = ep
    /\ bert' = [init |-> runs + 1, updates |-> 0]
    /\ grad' = "none"
    /\ step_grad' = "none"
    /\ opt_steps' = 0
    /\ zero_grads' = 0
    /\ last_epoch' = 0
    /\ best_valid_rmse_loss' = RatInt(BEST_VALID_INIT \div LossUnit)
    /\ best_step' = BEST_STEP_INIT
    /\ train_step' = IF cs > -1 THEN cs ELSE TRAIN_STEP_INIT
    /\ pc' = IF cs > -1 THEN "load" ELSE LoopHead(0, ep)
    /\ UNCHANGED <<epoch, batch_i, mse_losses, mae_losses, rmse_losses,
                   mse_loss, mae_loss, rmse_loss, valid_result, store, writes>>

\* Whether torch.load(target_path) finds the file
HasCheckpoint(st, key) == key \in DOMAIN st

\* (mutant of Load) a missing checkpoint is skipped and training starts
Load_SkipMissing ==
    /\ pc = "load"
    /\ bert' = IF HasCheckpoint(store, checkpoint_step)
                 THEN store[checkpoint_step] ELSE bert
    /\ pc' = LoopHead(0, epochs)
    /\ UNCHANGED <<runs, checkpoint_step, epochs, grad, step_grad, opt_steps,
                   zero_grads, last_epoch, train_step, best_valid_rmse_loss,
                   best_step, epoch, batch_i, mse_losses, mae_losses,
                   rmse_losses, mse_loss, mae_loss, rmse_loss, valid_result,
                   store, writes>>

\* Pretrain.load(checkpoint_step), called from main
Load ==
    /\ pc = "load"
    /\ IF HasCheckpoint(store, checkpoint_step)
         THEN /\ bert' = store[checkpoint_step]
              /\ pc' = LoopHead(0, epochs)
         ELSE /\ pc' = "ValueError"
              /\ UNCHANGED bert
    /\ UNCHANGED <<runs, checkpoint_step, epochs, grad, step_grad, opt_steps,
                   zero_grads, last_epoch, train_step, best_valid_rmse_loss,
                   best_step, epoch, batch_i, mse_losses, mae_losses,
                   rmse_losses, mse_loss, mae_loss, rmse_loss, valid_result,
                   store, writes>>

\* train(): one batch of epoch_step(self.pretraining_train_loader)
TrainBatch(b) ==
    /\ pc = "train_pass"
    /\ batch_i < NumTrainBatches
    /\ EpochStepBatch(TRUE, b)
    /\ UNCHANGED <<pc, runs, checkpoint_step, epochs, last_epoch, train_step,
                   best_valid_rmse_loss, best_step, epoch, mse_loss, mae_loss,
                   rmse_loss, valid_result, store, writes>>

\* train(): the training pass returns and its triple is bound (line 117)
TrainPassReturn ==
    /\ pc = "train_pass"
    /\ batch_i = NumTrainBatches
    /\ mse_loss' = EpochStepReturn.mse
    /\ mae_loss' = EpochStepReturn.mae
    /\ rmse_loss' = EpochStepReturn.rmse
    /\ batch_i' = 0
    /\ mse_losses' = <<>>
    /\ mae_losses' = <<>>
    /\ rmse_losses' = <<>>
    /\ pc' = IF ValidatesAt(epoch) THEN "valid_pass" ELSE "epoch_end"
    /\ UNCHANGED <<runs, checkpoint_step, epochs, bert, grad, step_grad,
                   opt_steps, zero_grads, last_epoch, train_step,
                   best_valid_rmse_loss, best_step, epoch, valid_result,
                   store, writes>>

\* train(): one batch of epoch_step(self.pretraining_valid_loader, train=False)
ValidBatch(b) ==
    /\ pc = "valid_pass"
    /\ batch_i < NumValidBatches
    /\ EpochStepBatch(FALSE, b)
    /\ UNCHANGED <<pc, runs, checkpoint_step, epochs, last_epoch, train_step,
                   best_valid_rmse_loss, best_step, epoch, mse_loss, mae_loss,
                   rmse_loss, valid_result, store, writes>>

\* train(): the validation pass returns (line 133); nothing is bound to it
ValidPassReturn ==
    /\ pc = "valid_pass"
    /\ batch_i = NumValidBatches
    /\ valid_result' = EpochStepReturn
    /\ batch_i' = 0
    /\ mse_losses' = <<>>
    /\ mae_losses' = <<>>
    /\ rmse_losses' = <<>>
    /\ pc' = "checkpoint"
    /\ UNCHANGED <<runs, checkpoint_step, epochs, bert, grad, step_grad,
                   opt_steps, zero_grads, last_epoch, train_step,
                   best_valid_rmse_loss, best_step, epoch, mse_loss, mae_loss,
                   rmse_loss, store, writes>>

\* train(): "Save the best model wrt valid rmse loss" (lines 142-148)
Checkpoint ==
    /\ pc = "checkpoint"
    /\ LET compared == ComparedRMSE(rmse_loss, valid_result.rmse)
           key == SaveKey(train_step, epoch)
       IN IF IsImprovement(best_valid_rmse_loss, compared)
            THEN /\ best_valid_rmse_loss' = compared
                 /\ best_step' = epoch
                 /\ store' = SaveModel(store, key, bert)
                 /\ writes' = Append(writes, key)
            ELSE UNCHANGED <<best_valid_rmse_loss, best_step, store, writes>>
    /\ pc' = "epoch_end"
    /\ UNCHANGED <<runs, checkpoint_step, epochs, bert, grad, step_grad,
                   opt_steps, zero_grads, last_epoch, train_step, epoch,
                   batch_i, mse_losses, mae_losses, rmse_losses, mse_loss,
                   mae_loss, rmse_loss, valid_result>>

\* self.lr_scheduler.step()
SchedulerStep(le) == le + 1

\* train(): `self._train_step += 1; self.lr_scheduler.step()` and the loop head
EpochEnd ==
    /\ pc = "epoch_end"
    /\ train_step' = train_step + 1
    /\ last_epoch' = SchedulerStep(last_epoch)
    /\ epoch' = epoch + 1
    /\ pc' = LoopHead(epoch + 1, epochs)
    /\ UNCHANGED <<runs, checkpoint_step, epochs, bert, grad, step_grad,
                   opt_steps, zero_grads, best_valid_rmse_loss, best_step,
                   batch_i, mse_losses, mae_losses, rmse_losses, mse_loss,
                   mae_loss, rmse_loss, valid_result, store, writes>>

\* The process ends (train returned, or the ValueError propagated out of
\* main); only the files of save_dir outlive it.
Exit ==
    /\ pc \in {"done", "ValueError"}
    /\ pc' = "idle"
    /\ checkpoint_step' = -1
    /\ epochs' = 0
    /\ bert' = NoParams
    /\ grad' = "none"
    /\ step_grad' = "none"
    /\ opt_steps' = 0
    /\ zero_grads' = 0
    /\ last_epoch' = 0
    /\ train_step' = TRAIN_STEP_INIT
    /\ best_valid_rmse_loss' = RatInt(0)
    /\ best_step' = BEST_STEP_INIT
    /\ epoch' = 0
    /\ batch_i' = 0
    /\ mse_losses' = <<>>
    /\ mae_losses' = <<>>
    /\ rmse_losses' = <<>>
    /\ mse_loss' = NoTriple.mse
    /\ mae_loss' = NoTriple.mae
    /\ rmse_loss' = NoTriple.rmse
    /\ valid_result' = NoTriple
    /\ UNCHANGED <<runs, store, writes>>

PInit ==
    /\ pc = "idle"
    /\ runs = 0
    /\ checkpoint_step = -1
    /\ epochs = 0
    /\ bert = NoParams
    /\ grad = "none"
    /\ step_grad = "none"
    /\ opt_steps = 0
    /\ zero_grads = 0
    /\ last_epoch = 0
    /\ train_step = TRAIN_STEP_INIT
    /\ best_valid_rmse_loss = RatInt(0)
    /\ best_step = BEST_STEP_INIT
    /\ epoch = 0
    /\ batch_i = 0
    /\ mse_losses = <<>>
    /\ mae_losses = <<>>
    /\ rmse_losses = <<>>
    /\ mse_loss = NoTriple.mse
    /\ mae_loss = NoTriple.mae
    /\ rmse_loss = NoTriple.rmse
    /\ valid_result = NoTriple
    /\ store = <<>>
    /\ writes = <<>>

LIdle ==
    /\ lpc = "off" /\ num_inner_steps = 0 /\ use_step_loss = FALSE
    /\ loss_layers = <<>> /\ call_x = 0 /\ call_step = 0
    /\ evaluated = <<>> /\ result = <<"none", 0>>

WIdle ==
    /\ wpc = "off" /\ net = "none" /\ use_softmax = FALSE
    /\ x_in = NoTensor /\ scores = NoTensor /\ w_out = <<"none", NoTensor>>

Init == PInit /\ LIdle /\ WIdle

Next ==
    \/ \E cs \in ResumeSteps, ep \in EpochChoices :
          Main(cs, ep) /\ UNCHANGED <<lvars, wvars>>
    \/ Load /\ UNCHANGED <<lvars, wvars>>
    \/ \E b \in BatchLosses : TrainBatch(b) /\ UNCHANGED <<lvars, wvars>>
    \/ TrainPassReturn /\ UNCHANGED <<lvars, wvars>>
    \/ \E b \in BatchLosses : ValidBatch(b) /\ UNCHANGED <<lvars, wvars>>
    \/ ValidPassReturn /\ UNCHANGED <<lvars, wvars>>
    \/ Checkpoint /\ UNCHANGED <<lvars, wvars>>
    \/ EpochEnd /\ UNCHANGED <<lvars, wvars>>
    \/ Exit /\ UNCHANGED <<lvars, wvars>>

Spec == Init /\ [][Next]_vars

----------------------------------------------------------------------------
(* src/models/meta_loss_model.py : MetaStepLossNetwork, MetaLossNetwork *)
(* A StepLossTransform is modelled at hidden width 1 with integer          *)
(* parameters: each nn.Linear is a pair [w, b].                            *)

LinearInits == { [w |-> 1, b |-> 0], [w |-> -1, b |-> 1] }
HiddenInputs == {-1, 1, 2}
StepArgs == (0 - MaxInnerSteps - 1)..(MaxInnerSteps + 1)

Relu(v) == IF v > 0 THEN v ELSE 0
Linear(l, v) == l.w * v + l.b

\* MetaStepLossNetwork.forward: Linear+ReLU blocks, then a final Linear
RECURSIVE StepLossForward(_, _)
StepLossForward(layers, v) ==
    IF Len(layers) = 1 THEN Linear(layers[1], v)
    ELSE StepLossForward(Tail(layers), Relu(Linear(Head(layers), v)))

\* MetaLossNetwork.__init__: how many MetaStepLossNetwork are appended
AllocCount(n, flag) == IF flag THEN n ELSE 1

\* MetaLossNetwork.__init__: the ModuleList, each entry a separate module
\* object (id) with parameters of its own (layers)
NewLossLayers(n, flag, params) ==
    [i \in 1..AllocCount(n, flag) |-> [id |-> i, layers |-> params[i]]]

\* nn.ModuleList.__getitem__(idx) for an int: Python sequence indexing,
\* which counts a negative idx from the end; 0-based position or IndexError
ModuleListIndex(len, idx) ==
    IF idx < 0 - len \/ idx >= len THEN <<"IndexError", 0>>
    ELSE IF idx < 0 THEN <<"ok", idx + len>>
    ELSE <<"ok", idx>>

\* (mutant of DispatchIndex) the step index is used in both modes
DispatchIndex_AlwaysStep(flag, step) == step

\* MetaLossNetwork.forward: the subscript applied to self.loss_layers
DispatchIndex(flag, step) == IF flag THEN step ELSE 0

\* MetaLossNetwork.forward(x, step)
MetaLossForward(v, step) ==
    /\ lpc \in {"built", "called"}
    /\ LET at == ModuleListIndex(Len(loss_layers),
                                 DispatchIndex(use_step_loss, step))
       IN IF at[1] = "ok"
            THEN /\ evaluated' = <<at[2]>>
                 /\ result' = <<"ok", StepLossForward(
                                         loss_layers[at[2] + 1].layers, v)>>
            ELSE /\ evaluated' = <<>>
                 /\ result' = <<"IndexError", 0>>
    /\ call_x' = v
    /\ call_step' = step
    /\ lpc' = "called"
    /\ UNCHANGED <<num_inner_steps, use_step_loss, loss_layers>>

\* MetaLossNetwork(num_inner_steps, num_loss_hidden, num_loss_layers,
\* use_step_loss) has been constructed
LInit ==
    \E n \in 0..MaxInnerSteps, k \in 1..MaxLossLayers, flag \in BOOLEAN :
      \E params \in [1..AllocCount(n, flag) -> [1..k -> LinearInits]] :
        /\ lpc = "built"
        /\ num_inner_steps = n
        /\ use_step_loss = flag
        /\ loss_layers = NewLossLayers(n, flag, params)
        /\ call_x = 0 /\ call_step = 0
        /\ evaluated = <<>> /\ result = <<"none", 0>>

PIdle ==
    /\ pc = "off" /\ runs = 0 /\ checkpoint_step = -1 /\ epochs = 0
    /\ bert = NoParams /\ grad = "none" /\ step_grad = "none"
    /\ opt_steps = 0 /\ zero_grads = 0 /\ last_epoch = 0
    /\ train_step = TRAIN_STEP_INIT /\ best_valid_rmse_loss = RatInt(0)
    /\ best_step = BEST_STEP_INIT /\ epoch = 0 /\ batch_i = 0
    /\ mse_losses = <<>> /\ mae_losses = <<>> /\ rmse_losses = <<>>
    /\ mse_loss = NoTriple.mse /\ mae_loss = NoTriple.mae
    /\ rmse_loss = NoTriple.rmse /\ valid_result = NoTriple
    /\ store = <<>> /\ writes = <<>>

InitLoss == PIdle /\ LInit /\ WIdle

NextLoss ==
    \E v \in HiddenInputs, step \in StepArgs :
        MetaLossForward(v, step) /\ UNCHANGED <<pvars, wvars>>

SpecLoss == InitLoss /\ [][NextLoss]_vars

----------------------------------------------------------------------------
(* src/models/meta_loss_model.py : MetaTaskLstmNetwork, MetaTaskMLPNetwork *)
(* A tensor is [shape, data], data in row-major order.                      *)

EntryValues == {0, 5}
ScoreValues == {0, 2, MASK_FILL - 1}

RECURSIVE Prod(_)
Prod(s) == IF s = <<>> THEN 1 ELSE Head(s) * Prod(Tail(s))

\* Tensor.squeeze() without a dim: every dimension of size 1 is removed
Squeeze(t) == [shape |-> SelectSeq(t.shape, LAMBDA d : d # 1), data |-> t.data]

\* Broadcasting of two shapes, right-aligned
PadShape(s, n) ==
    [i \in 1..n |-> IF i <= n - Len(s) THEN 1 ELSE s[i - (n - Len(s))]]
MaxOf(a, b) == IF a >= b THEN a ELSE b
Broadcastable(s1, s2) ==
    LET n == MaxOf(Len(s1), Len(s2))
        a == PadShape(s1, n)
        b == PadShape(s2, n)
    IN \A i \in 1..n : a[i] = b[i] \/ a[i] = 1 \/ b[i] = 1
BroadcastShape(s1, s2) ==
    LET n == MaxOf(Len(s1), Len(s2))
        a == PadShape(s1, n)
        b == PadShape(s2, n)
    IN [i \in 1..n |-> IF a[i] = 1 THEN b[i] ELSE a[i]]

\* Tensor.masked_fill_(mask, value) is in place: the broadcast of self and
\* mask must have the shape of self, else RuntimeError
MaskedFillOK(self, mask) ==
    /\ Broadcastable(self.shape, mask.shape)
    /\ BroadcastShape(self.shape, mask.shape) = self.shape

\* masked_fill_ where it is allowed; here the mask is 2-D and self has no
\* dimension of size 1, so the two shapes are then equal
MaskedFill(self, mask, value) ==
    [shape |-> self.shape,
     data |-> [i \in 1..Len(self.data) |->
                 IF mask.data[i] THEN value ELSE self.data[i]]]

\* mask = (x == 0)
PaddingMask(x) ==
    [shape |-> x.shape, data |-> [i \in 1..Len(x.data) |-> x.data[i] = 0]]

\* e^(-k) for k = 0, 1, 2, ... rounded to 8 decimals, as multiples of 10^-8;
\* every later entry rounds to 0
ExpTable == << 100000000, 36787944, 13533528, 4978707, 1831564, 673795,
               247875, 91188, 33546, 12341, 4540, 1670, 614, 226, 83, 31, 11,
               4, 2, 1 >>
ExpScale == ExpTable[1]

\* exp(d) for an integer d <= 0, in fixed point with 8 decimals: the natural
\* exponential the softmax applies to score - max(row).  Below the table it
\* is 0 (the true value is under 5 * 10^-9; float32 gives exactly 0 from
\* about d = -104 on, which covers the distance to the -98765 fill value).
ExpFx(d) == IF 0 - d >= Len(ExpTable) THEN 0 ELSE ExpTable[1 - d]

RowOf(t, r) == [c \in 1..t.shape[2] |-> t.data[(r - 1) * t.shape[2] + c]]
RECURSIVE MaxSeq(_)
MaxSeq(s) == IF Len(s) = 1 THEN s[1] ELSE MaxOf(Head(s), MaxSeq(Tail(s)))

\* softmax of one row: each weight is <<numerator, denominator>>
SoftmaxRow(row) ==
    LET m == MaxSeq(row)
        e == [c \in 1..Len(row) |-> ExpFx(row[c] - m)]
    IN [c \in 1..Len(row) |-> <<e[c], SumSeq(e)>>]

\* F.softmax(t, dim=1) needs a tensor of at least 2 dimensions (IndexError
\* otherwise); on a 2-D tensor it normalises each row
SoftmaxDim1OK(t) == Len(t.shape) >= 2
SoftmaxDim1(t) ==
    [shape |-> t.shape,
     data |-> [i \in 1..Len(t.data) |->
                 SoftmaxRow(RowOf(t, ((i - 1) \div t.shape[2]) + 1))
                     [((i - 1) % t.shape[2]) + 1]]]

Abs(v) == IF v < 0 THEN 0 - v ELSE v
TorchAbs(t) == [shape |-> t.shape, data |-> [i \in 1..Len(t.data) |-> Abs(t.data[i])]]

\* The tail shared by both forward methods (lines 70-73 and 89-92), given
\* the head's output `sc` and the mask
WeightsOf(sc, mask, softmax) ==
    LET sq == Squeeze(sc)
    IN IF softmax
         THEN IF ~MaskedFillOK(sq, mask) THEN <<"RuntimeError", NoTensor>>
              ELSE IF ~SoftmaxDim1OK(sq) THEN <<"IndexError", NoTensor>>
              ELSE <<"ok", SoftmaxDim1(MaskedFill(sq, mask, MASK_FILL))>>
         ELSE <<"ok", TorchAbs(sq)>>

\* The shape of the scores the head produces: out_net(lstm_out) is
\* (b, t, 1); mlp(x) is (b, 1)
ScoreShape(kind, xshape) ==
    IF kind = "lstm" THEN <<xshape[1], xshape[2], 1>> ELSE <<xshape[1], 1>>

\* MetaTaskLstmNetwork.forward(x) / MetaTaskMLPNetwork.forward(x)
WeightForward ==
    /\ wpc = "ready"
    /\ w_out' = WeightsOf(scores, PaddingMask(x_in), use_softmax)
    /\ wpc' = "returned"
    /\ UNCHANGED <<net, use_softmax, x_in, scores>>

\* A network has been constructed and is about to be called on x_in; the
\* values its head will compute (they depend on the parameters) are scores
WInit ==
    \E kind \in {"lstm", "mlp"}, sm \in BOOLEAN,
       b \in 1..MaxBatch, t \in 1..MaxLen :
      \E xd \in [1..(b * t) -> EntryValues],
         sd \in [1..Prod(ScoreShape(kind, <<b, t>>)) -> ScoreValues] :
        /\ wpc = "ready"
        /\ net = kind
        /\ use_softmax = sm
        /\ x_in = [shape |-> <<b, t>>, data |-> xd]
        /\ scores = [shape |-> ScoreShape(kind, <<b, t>>), data |-> sd]
        /\ w_out = <<"none", NoTensor>>

InitWeight == PIdle /\ LIdle /\ WInit

NextWeight == WeightForward /\ UNCHANGED <<pvars, lvars>>

SpecWeight == InitWeight /\ [][NextWeight]_vars

----------------------------------------------------------------------------
(* Properties of the orchestrator, checked under Spec *)

InTrain == pc \in {"train_pass", "valid_pass", "checkpoint", "epoch_end"}
Compared == ComparedRMSE(rmse_loss, valid_result.rmse)
Saved == writes' # writes
StartStep == IF checkpoint_step > -1 THEN checkpoint_step ELSE TRAIN_STEP_INIT
AllEqual(s) == \A i, j \in 1..Len(s) : s[i] = s[j]

\* C1 (as claimed): at every epoch where validation runs, a checkpoint is
\* written and best_valid_rmse_loss / best_step are updated if and only if
\* the RMSE returned by that epoch's validation pass is strictly below
\* best_valid_rmse_loss; the training pass's RMSE plays no part.
C1_ValidationRmseDecides ==
    [][pc = "checkpoint" =>
         /\ Saved <=> RatLess(valid_result.rmse, best_valid_rmse_loss)
         /\ Saved => /\ best_valid_rmse_loss' = valid_result.rmse
                     /\ best_step' = epoch
         /\ ~Saved => UNCHANGED <<best_valid_rmse_loss, best_step>>]_vars

\* C2 (as claimed): within a run of train, best_valid_rmse_loss never
\* increases; best, best_step and the checkpoint store change only in the
\* checkpoint step, together, and only when the compared RMSE is strictly
\* below the previous best; a tie or a regression writes nothing; and the
\* first compared value of a run always writes a checkpoint, the best
\* starting at +infinity.
C2_CheckpointMonotonicity ==
    [][InTrain =>
         /\ RatLeq(best_valid_rmse_loss', best_valid_rmse_loss)
         /\ (\/ best_valid_rmse_loss' # best_valid_rmse_loss
             \/ best_step' # best_step
             \/ store' # store
             \/ Saved)
              => /\ pc = "checkpoint"
                 /\ RatLess(Compared, best_valid_rmse_loss)
                 /\ best_valid_rmse_loss' = Compared
                 /\ best_step' = epoch
                 /\ writes' = Append(writes, train_step)
                 /\ train_step \in DOMAIN store' /\ store'[train_step] = bert
         /\ (pc = "checkpoint" /\ ~RatLess(Compared, best_valid_rmse_loss))
              => UNCHANGED <<best_valid_rmse_loss, best_step, store, writes>>
         /\ (pc = "checkpoint" /\ epoch = 0) => Saved]_vars

\* C3: load(step) for a step no checkpoint was saved under raises ValueError
\* (it never returns normally into train) and leaves the model parameters
\* and all the rest of the training state as they were.
C3_LoadMissingRaises ==
    [][(pc = "load" /\ checkpoint_step \notin DOMAIN store) =>
         /\ pc' = "ValueError"
         /\ UNCHANGED <<bert, grad, step_grad, opt_steps, zero_grads,
                        last_epoch, train_step, best_valid_rmse_loss,
                        best_step, epoch, store, writes>>]_vars

\* C3 witness: a load of step 3 has raised although other steps are saved
C3_Witness ==
    /\ pc = "ValueError"
    /\ checkpoint_step = 3
    /\ DOMAIN store # {}
    /\ checkpoint_step \notin DOMAIN store
    /\ bert = [init |-> runs, updates |-> 0]

\* C8 (as claimed): RMSE == sqrt(MSE) for every epoch-level triple
\* epoch_step returns.
C8_RmseIsSqrtOfMse ==
    /\ RatMul(rmse_loss, rmse_loss) = mse_loss
    /\ RatMul(valid_result.rmse, valid_result.rmse) = valid_result.mse

\* The triple an epoch_step pass hands back in this step, if it does
Returned(t) ==
    \/ /\ pc = "train_pass" /\ pc' # "train_pass"
       /\ t = [mse |-> mse_loss', mae |-> mae_loss', rmse |-> rmse_loss']
    \/ /\ pc = "valid_pass" /\ pc' # "valid_pass"
       /\ t = valid_result'

\* C8 (amended): every returned triple has MSE = mean of the per-batch MSEs
\* and RMSE = mean of the per-batch sqrt(MSE); so RMSE <= sqrt(MSE), and
\* RMSE == sqrt(MSE) exactly when all per-batch MSEs are equal.
C8_RmseIsMeanOfBatchRmse ==
    [][\A t \in {[mse |-> mse_loss', mae |-> mae_loss', rmse |-> rmse_loss'],
                 valid_result'} :
         Returned(t) =>
           /\ t.mse = NpMean(mse_losses)
           /\ Len(rmse_losses) = Len(mse_losses)
           /\ \A i \in 1..Len(mse_losses) :
                 rmse_losses[i] * rmse_losses[i] = mse_losses[i]
           /\ t.rmse[1] * Len(rmse_losses) = SumSeq(rmse_losses) * t.rmse[2]
           /\ RatLeq(RatMul(t.rmse, t.rmse), t.mse)
           /\ (RatMul(t.rmse, t.rmse) = t.mse) <=> AllEqual(mse_losses)]_vars

\* C8 witness: a validation pass over batches with MSE 1 and 4 has returned
\* MSE 5/2 and RMSE 3/2
C8_Witness ==
    /\ pc = "checkpoint"
    /\ valid_result.mse = <<5, 2>>
    /\ valid_result.rmse = <<3, 2>>

\* C9 (as claimed): a checkpoint is immutable once written: no torch.save
\* ever goes to a key that already holds a blob, in particular not to the
\* key a resumed run was loaded from.
C9_CheckpointImmutable ==
    [][Saved => /\ writes'[Len(writes')] \notin DOMAIN store
                /\ \A k \in DOMAIN store : store'[k] = store[k]]_vars

\* C10: a training batch zeroes the gradients and then takes exactly one
\* optimizer step on the gradients of that batch alone; a validation batch
\* takes no optimizer step and leaves the parameters unchanged; the
\* scheduler and the global step counter advance only at the end of an
\* epoch, by one each, after the epoch's training pass and after its
\* validation and checkpoint if it validated; when train returns both have
\* advanced by exactly `epochs`.
C10_SteppingLifecycle ==
    [][/\ (pc = "train_pass" /\ batch_i' = batch_i + 1)
            => /\ opt_steps' = opt_steps + 1
               /\ zero_grads' = zero_grads + 1
               /\ step_grad' = "fresh"
               /\ bert' = [bert EXCEPT !.updates = @ + 1]
       /\ (pc = "train_pass" /\ pc' # "train_pass")
            => opt_steps = NumTrainBatches * (epoch + 1)
       /\ pc = "valid_pass"
            => /\ opt_steps' = opt_steps /\ bert' = bert
               /\ batch_i' = batch_i + 1 => zero_grads' = zero_grads + 1
       /\ (InTrain /\ (last_epoch' # last_epoch \/ train_step' # train_step))
            => pc = "epoch_end"
       /\ pc = "epoch_end"
            => /\ last_epoch' = last_epoch + 1
               /\ train_step' = train_step + 1
               /\ last_epoch = epoch
               /\ train_step = StartStep + epoch
               /\ opt_steps = NumTrainBatches * (epoch + 1)
               /\ zero_grads = NumTrainBatches * (epoch + 1)
                     + NumValidBatches * ((epoch \div VAL_INTERVAL) + 1)
       /\ (pc # "done" /\ pc' = "done")
            => /\ last_epoch' = epochs'
               /\ train_step' = StartStep' + epochs'
               /\ opt_steps' = NumTrainBatches * epochs']_vars

\* C10 witness: a run of MaxEpochs epochs resumed from checkpoint 0 has
\* completed, some of its epochs validating and some not
C10_Witness ==
    /\ pc = "done"
    /\ epochs = MaxEpochs
    /\ checkpoint_step = 0
    /\ last_epoch = MaxEpochs
    /\ train_step = MaxEpochs
    /\ opt_steps = NumTrainBatches * MaxEpochs
    /\ zero_grads > opt_steps
    /\ zero_grads < opt_steps + NumValidBatches * MaxEpochs

----------------------------------------------------------------------------
(* Properties of MetaLossNetwork, checked under SpecLoss *)

\* C4 (as claimed): with use_step_loss, forward(x, step) for any integer
\* step outside [0, num_inner_steps), negative ones included, fails with
\* IndexError and evaluates no instance; for a step inside the range it
\* evaluates exactly the instance stored at index step.
C4_StepOutsideRangeRaises ==
    (lpc = "called" /\ use_step_loss) =>
        IF call_step \in 0..(num_inner_steps - 1)
          THEN result[1] = "ok" /\ evaluated = <<call_step>>
          ELSE result[1] = "IndexError" /\ evaluated = <<>>

\* C5: exactly num_inner_steps separate instances are allocated when
\* use_step_loss is true and exactly one otherwise; with use_step_loss
\* false every call, whatever its step, evaluates instance 0 and returns
\* that instance's output for x without an error.
C5_SharedInstanceIgnoresStep ==
    lpc # "off" =>
        /\ Len(loss_layers) = IF use_step_loss THEN num_inner_steps ELSE 1
        /\ \A i, j \in 1..Len(loss_layers) :
              i # j => loss_layers[i].id # loss_layers[j].id
        /\ (lpc = "called" /\ ~use_step_loss) =>
              /\ evaluated = <<0>>
              /\ result = <<"ok", StepLossForward(loss_layers[1].layers, call_x)>>

\* C5 witness: a shared-instance network configured with 0 inner steps has
\* answered a call with step -1 from its single instance
C5_Witness ==
    /\ lpc = "called"
    /\ ~use_step_loss
    /\ num_inner_steps = 0
    /\ call_step = -1
    /\ Len(loss_layers) = 1
    /\ evaluated = <<0>>
    /\ result[1] = "ok"

----------------------------------------------------------------------------
(* Properties of the weighting networks, checked under SpecWeight *)

XAt(r, c) == x_in.data[(r - 1) * x_in.shape[2] + c]
WAt(r, c) == w_out[2].data[(r - 1) * x_in.shape[2] + c]
Cols == 1..x_in.shape[2]
ValidCols(r) == {c \in Cols : XAt(r, c) # 0}
RECURSIVE SumNum(_, _)
SumNum(r, cs) ==
    IF cs = {} THEN 0
    ELSE LET c == CHOOSE c \in cs : TRUE IN WAt(r, c)[1] + SumNum(r, cs \ {c})

\* n / z < 10^-6, without leaving 32-bit integers
EpsDen == ExpScale \div 100
Negligible(n, z) == n < (z + EpsDen - 1) \div EpsDen

\* C6 (as claimed): for every b >= 1 and L >= 1 both forward methods return,
\* without a shape error, a tensor of the shape of the input: (b, L) from
\* the LSTM network, (b, d) from the MLP network, in both modes.
C6_OutputShapeIsInputShape ==
    wpc = "returned" => (w_out[1] = "ok" /\ w_out[2].shape = x_in.shape)

\* C7 (as claimed): with use_softmax, for every row of the batch with a
\* non-padding position, the LSTM network returns weights whose non-masked
\* entries sum to 1 and whose masked entries are below epsilon (here both
\* within 10^-6).
C7_MaskedSoftmaxNormalised ==
    (wpc = "returned" /\ net = "lstm" /\ use_softmax) =>
        \A r \in 1..x_in.shape[1] :
            ValidCols(r) # {} =>
              /\ w_out[1] = "ok"
              /\ w_out[2].shape = x_in.shape
              /\ \A c \in Cols \ ValidCols(r) :
                    Negligible(WAt(r, c)[1], WAt(r, c)[2])
              /\ LET z == WAt(r, 1)[2]
                 IN Negligible(z - SumNum(r, ValidCols(r)), z)

====
